---- MODULE Spec2Model ----
(***************************************************************************)
(* Many-to-many search on a contraction hierarchy                          *)
(* (src/engine/routing_algorithms/many_to_many_ch.cpp).                    *)
(*                                                                         *)
(* The state is the state of one call of manyToManySearch: the facade      *)
(* (graph), the query (phantom nodes, source and target indices), the      *)
(* reused many-to-many heap, the bucket list, the three result tables and  *)
(* the position of the control flow (pc and the loop variables).           *)
(***************************************************************************)
EXTENDS Integers, Sequences, FiniteSets, TLC

(***************************************************************************)
(* Bounds of the model.                                                    *)
(***************************************************************************)
NumNodes == 3
MaxEdgeWeight == 3
MaxEdgeDuration == 1
MaxOffset == 3
StallNodes == 4
LongDuration == 4

Nodes == 0 .. (NumNodes - 1)

(***************************************************************************)
(* Program constants (util/typedefs.hpp).  SPECIAL_NODEID is the largest   *)
(* NodeID; the model only needs it to be larger than every node id.        *)
(***************************************************************************)
INVALID_EDGE_WEIGHT == 2147483647
MAXIMAL_EDGE_DURATION == 2147483647
SPECIAL_NODEID == 2147483647

VARIABLES
    facade,                 \* [edges, number_of_nodes]: the hierarchy graph
    phantom_nodes,          \* sequence of phantom nodes
    source_indices,         \* sequence of indices into phantom_nodes
    target_indices,         \* sequence of indices into phantom_nodes
    pc,                     \* position in manyToManySearch
    column_idx,             \* loop variable of the backward loop
    path_column_idx,        \* loop variable of the retrieval loop of a row
    row_idx,                \* loop variable of the forward loop
    query_heap,             \* engine_working_data.many_to_many_heap
    search_space_with_buckets,
    weights_table,
    durations_table,
    middle_nodes_table,
    packed_path_from_middle_to_target,
    packed_path_from_source_to_middle,
    out_of_range_read,      \* the last retrieval dereferenced a position outside its container
    last_node,              \* node settled by the last routing step
    settled,                \* per row, the nodes its forward search has settled
    first_run               \* <<tables>> of an earlier call with the same arguments, or <<>>

vars == <<facade, phantom_nodes, source_indices, target_indices, pc, column_idx,
          path_column_idx, row_idx, query_heap, search_space_with_buckets, weights_table,
          durations_table, middle_nodes_table, packed_path_from_middle_to_target,
          packed_path_from_source_to_middle, out_of_range_read, last_node, settled,
          first_run>>

(* facade.GetNumberOfNodes(): the node ids of the graph. *)
GraphNodes == 0 .. (facade.number_of_nodes - 1)

----------------------------------------------------------------------------
(***************************************************************************)
(* Lexicographic order on (weight, duration) pairs: std::tie(a,b) <        *)
(* std::tie(c,d).                                                          *)
(***************************************************************************)
TieLess(w1, d1, w2, d2) == (w1 < w2) \/ (w1 = w2 /\ d1 < d2)

Min2(a, b) == IF b < a THEN b ELSE a

(***************************************************************************)
(* The facade.  An edge record is stored in the adjacency list of `from`;  *)
(* data.forward / data.backward say in which search it may be used.        *)
(***************************************************************************)
GetAdjacentEdgeRange(f, node) == {e \in f.edges : e.from = node}

(* ch::getLoopWeight<false>: least weight of a forward self-loop of node.  *)
LoopEdges(f, node) == {e \in GetAdjacentEdgeRange(f, node) : e.forward /\ e.to = node}

SetMin(S) == CHOOSE x \in S : \A y \in S : x <= y

GetLoopWeight(f, node) ==
    IF LoopEdges(f, node) = {} THEN INVALID_EDGE_WEIGHT
    ELSE SetMin({e.weight : e \in LoopEdges(f, node)})

(* ch::getLoopWeight<true>: least duration of a forward self-loop of node. *)
GetLoopDuration(f, node) ==
    IF LoopEdges(f, node) = {} THEN MAXIMAL_EDGE_DURATION
    ELSE SetMin({e.duration : e \in LoopEdges(f, node)})

(* Mutant of addLoopWeight: the sign of the corrected weight is not checked. *)
addLoopWeight_NoSignCheck(f, node, weight, duration) ==
    IF GetLoopWeight(f, node) # INVALID_EDGE_WEIGHT
    THEN [ok |-> TRUE, weight |-> weight + GetLoopWeight(f, node),
          duration |-> duration + GetLoopDuration(f, node)]
    ELSE [ok |-> FALSE, weight |-> weight, duration |-> duration]

(* Mutant of addLoopWeight: a self-loop is reported but its weight and
   duration are not added. *)
addLoopWeight_NothingAdded(f, node, weight, duration) ==
    [ok |-> GetLoopWeight(f, node) # INVALID_EDGE_WEIGHT, weight |-> weight,
     duration |-> duration]

(***************************************************************************)
(* addLoopWeight: [ok, weight, duration].  weight and duration are the     *)
(* in-out reference parameters; they are changed only when ok.             *)
(***************************************************************************)
addLoopWeight(f, node, weight, duration) ==
    LET loop_weight == GetLoopWeight(f, node)
        new_weight_with_loop == weight + loop_weight
    IN  IF loop_weight # INVALID_EDGE_WEIGHT /\ new_weight_with_loop >= 0
        THEN [ok |-> TRUE, weight |-> new_weight_with_loop,
              duration |-> duration + GetLoopDuration(f, node)]
        ELSE [ok |-> FALSE, weight |-> weight, duration |-> duration]

----------------------------------------------------------------------------
(***************************************************************************)
(* The many-to-many heap: an addressable min-heap.  For every node:        *)
(* inserted (WasInserted), queued (still in the heap), key (GetKey),       *)
(* parent and duration (GetData).                                          *)
(***************************************************************************)
NoEntry == [inserted |-> FALSE, queued |-> FALSE, key |-> 0, parent |-> 0, duration |-> 0]

(* InitializeOrClearManyToManyThreadLocalStorage(number_of_nodes) *)
ClearedHeap == [n \in GraphNodes |-> NoEntry]

WasInserted(h, n) == n \in DOMAIN h /\ h[n].inserted
GetKey(h, n) == h[n].key
GetData(h, n) == [parent |-> h[n].parent, duration |-> h[n].duration]
Empty(h) == \A n \in DOMAIN h : ~h[n].queued

Insert(h, n, key, parent, duration) ==
    [h EXCEPT ![n] = [inserted |-> TRUE, queued |-> TRUE, key |-> key,
                      parent |-> parent, duration |-> duration]]

(* The node DeleteMin returns: least key, equal keys by node id. *)
MinNode(h) ==
    CHOOSE n \in DOMAIN h :
        /\ h[n].queued
        /\ \A m \in DOMAIN h : h[m].queued =>
              (h[n].key < h[m].key \/ (h[n].key = h[m].key /\ n <= m))

DeleteMin(h) == [h EXCEPT ![MinNode(h)].queued = FALSE]

(* insertSourceInHeap / insertTargetInHeap: the phantom's anchor with its  *)
(* offset as cost and itself as parent.                                    *)
InsertPhantom(h, phantom) ==
    Insert(h, phantom.node, phantom.weight, phantom.node, phantom.duration)

insertTargetInHeap(h, phantom) == InsertPhantom(h, phantom)
insertSourceInHeap(h, phantom) == InsertPhantom(h, phantom)

----------------------------------------------------------------------------
FORWARD_DIRECTION == TRUE
REVERSE_DIRECTION == FALSE

EdgeUsable(direction, e) == IF direction = FORWARD_DIRECTION THEN e.forward ELSE e.backward

(***************************************************************************)
(* stallAtNode<DIRECTION>: some edge of the opposite direction leads to an *)
(* inserted node from which `node` is reached more cheaply.                *)
(***************************************************************************)
stallAtNode(direction, f, node, weight, h) ==
    \E e \in GetAdjacentEdgeRange(f, node) :
        /\ EdgeUsable(~direction, e)
        /\ WasInserted(h, e.to)
        /\ GetKey(h, e.to) + e.weight < weight

(* Mutant of RelaxEdge: the direction flag of the edge is not looked at. *)
RelaxEdge_IgnoresFlag(direction, node, weight, duration, h, e) ==
    IF ~WasInserted(h, e.to)
    THEN Insert(h, e.to, weight + e.weight, node, duration + e.duration)
    ELSE IF TieLess(weight + e.weight, duration + e.duration,
                    GetKey(h, e.to), GetData(h, e.to).duration)
         THEN [h EXCEPT ![e.to].parent = node,
                        ![e.to].duration = duration + e.duration,
                        ![e.to].key = weight + e.weight]
         ELSE h

(* Mutant of RelaxEdge: a node that was inserted is never improved. *)
RelaxEdge_NoDecrease(direction, node, weight, duration, h, e) ==
    IF ~EdgeUsable(direction, e) \/ WasInserted(h, e.to) THEN h
    ELSE Insert(h, e.to, weight + e.weight, node, duration + e.duration)

(* Mutant of RelaxEdge: every usable edge inserts its target anew, also a
   target that was inserted before. *)
RelaxEdge_Reinsert(direction, node, weight, duration, h, e) ==
    IF ~EdgeUsable(direction, e) THEN h
    ELSE Insert(h, e.to, weight + e.weight, node, duration + e.duration)

(***************************************************************************)
(* One iteration of the edge loop of relaxOutgoingEdges.                   *)
(***************************************************************************)
RelaxEdge(direction, node, weight, duration, h, e) ==
    IF ~EdgeUsable(direction, e) THEN h
    ELSE
        LET to == e.to
            to_weight == weight + e.weight
            to_duration == duration + e.duration
        IN  IF ~WasInserted(h, to)
            THEN Insert(h, to, to_weight, node, to_duration)
            ELSE IF TieLess(to_weight, to_duration, GetKey(h, to), GetData(h, to).duration)
                 THEN [h EXCEPT ![to].parent = node,
                                ![to].duration = to_duration,
                                ![to].key = to_weight]
                 ELSE h

(* The edge loop, over the adjacency list in target order. *)
RECURSIVE RelaxEdges(_, _, _, _, _, _)
RelaxEdges(direction, node, weight, duration, h, edges) ==
    IF edges = {} THEN h
    ELSE
        LET e == CHOOSE x \in edges : \A y \in edges : x.to <= y.to
        IN  RelaxEdges(direction, node, weight, duration,
                       RelaxEdge(direction, node, weight, duration, h, e),
                       edges \ {e})

(* Mutant of relaxOutgoingEdges: every node is treated as stalled. *)
relaxOutgoingEdges_AlwaysStall(direction, f, node, weight, duration, h) == h

relaxOutgoingEdges(direction, f, node, weight, duration, h) ==
    IF stallAtNode(direction, f, node, weight, h) THEN h
    ELSE RelaxEdges(direction, node, weight, duration, h, GetAdjacentEdgeRange(f, node))

(* relaxOutgoingEdges with the stall check (lines 52-55) removed. *)
relaxOutgoingEdges_Unpruned(direction, f, node, weight, duration, h) ==
    RelaxEdges(direction, node, weight, duration, h, GetAdjacentEdgeRange(f, node))

----------------------------------------------------------------------------
(***************************************************************************)
(* NodeBucket and its orders (many_to_many.hpp).  The bucket list is a     *)
(* sequence; position Len+1 is its end().                                  *)
(***************************************************************************)
NodeBucket(middle_node, parent_node, column_index, weight, duration) ==
    [middle_node |-> middle_node, parent_node |-> parent_node,
     column_index |-> column_index, weight |-> weight, duration |-> duration]

(* NodeBucket::operator< : by middle_node, then by column_index. *)
BucketLess(a, b) ==
    \/ a.middle_node < b.middle_node
    \/ (a.middle_node = b.middle_node /\ a.column_index < b.column_index)

(* The position of list[i] after std::sort by operator<: behind every entry
   that is less, and behind the earlier ones of the entries that are
   neither less nor greater. *)
SortedPosition(list, i) ==
    1 + Cardinality({j \in 1 .. Len(list) :
                        \/ BucketLess(list[j], list[i])
                        \/ (~BucketLess(list[i], list[j]) /\ j < i)})

(* Mutant of SortBuckets: the list is ordered by column first, then by node. *)
SortBuckets_ByColumn(list) ==
    LET Less(a, b) == \/ a.column_index < b.column_index
                      \/ (a.column_index = b.column_index /\ a.middle_node < b.middle_node)
        Position(i) == 1 + Cardinality({j \in 1 .. Len(list) :
                                           \/ Less(list[j], list[i])
                                           \/ (~Less(list[i], list[j]) /\ j < i)})
    IN  [k \in 1 .. Len(list) |-> list[CHOOSE i \in 1 .. Len(list) : Position(i) = k]]

(* Mutant of SortBuckets: the list is left in insertion order. *)
SortBuckets_Skipped(list) == list

(* std::sort by operator<. *)
SortBuckets(list) ==
    [k \in 1 .. Len(list) |->
        list[CHOOSE i \in 1 .. Len(list) : SortedPosition(list, i) = k]]

(* NodeBucket::Compare and NodeBucket::ColumnCompare(column_idx): element  *)
(* before value, value before element.  use_column selects ColumnCompare.  *)
ElementLess(b, node, column, use_column) ==
    IF use_column
    THEN b.middle_node < node \/ (b.middle_node = node /\ b.column_index < column)
    ELSE b.middle_node < node

ValueLess(node, column, use_column, b) ==
    IF use_column
    THEN node < b.middle_node \/ (node = b.middle_node /\ column < b.column_index)
    ELSE node < b.middle_node

(* std::lower_bound / std::upper_bound: binary search over [first, first+len). *)
RECURSIVE LowerBound(_, _, _, _, _, _)
LowerBound(list, node, column, use_column, first, len) ==
    IF len = 0 THEN first
    ELSE
        LET half == len \div 2
            mid == first + half
        IN  IF ElementLess(list[mid], node, column, use_column)
            THEN LowerBound(list, node, column, use_column, mid + 1, len - half - 1)
            ELSE LowerBound(list, node, column, use_column, first, half)

RECURSIVE UpperBound(_, _, _, _, _, _)
UpperBound(list, node, column, use_column, first, len) ==
    IF len = 0 THEN first
    ELSE
        LET half == len \div 2
            mid == first + half
        IN  IF ~ValueLess(node, column, use_column, list[mid])
            THEN UpperBound(list, node, column, use_column, mid + 1, len - half - 1)
            ELSE UpperBound(list, node, column, use_column, first, half)

(* std::equal_range: [first, second) *)
EqualRange(list, node, column, use_column) ==
    [first |-> LowerBound(list, node, column, use_column, 1, Len(list)),
     second |-> UpperBound(list, node, column, use_column, 1, Len(list))]

----------------------------------------------------------------------------
(* Mutant of MergeBucket: the duration of the bucket entry is subtracted. *)
MergeBucket_SubtractDuration(f, row, number_of_targets, node, source_weight, source_duration, t, current_bucket) ==
    LET cell == row * number_of_targets + current_bucket.column_index
        new_weight == source_weight + current_bucket.weight
        new_duration == source_duration - current_bucket.duration
    IN  IF new_weight >= 0 /\ TieLess(new_weight, new_duration, t.weights[cell], t.durations[cell])
        THEN [weights |-> [t.weights EXCEPT ![cell] = new_weight],
              durations |-> [t.durations EXCEPT ![cell] = new_duration],
              middle_nodes |-> [t.middle_nodes EXCEPT ![cell] = node]]
        ELSE t

(* Mutant of MergeBucket: the parent of the bucket entry is recorded as the
   meeting node. *)
MergeBucket_ParentAsMiddle(f, row, number_of_targets, node, source_weight, source_duration, t, current_bucket) ==
    LET cell == row * number_of_targets + current_bucket.column_index
        new_weight == source_weight + current_bucket.weight
        new_duration == source_duration + current_bucket.duration
    IN  IF new_weight >= 0 /\ TieLess(new_weight, new_duration, t.weights[cell], t.durations[cell])
        THEN [weights |-> [t.weights EXCEPT ![cell] = new_weight],
              durations |-> [t.durations EXCEPT ![cell] = new_duration],
              middle_nodes |-> [t.middle_nodes EXCEPT ![cell] = current_bucket.parent_node]]
        ELSE t

(* Mutant of MergeBucket: a non-negative candidate is written without being
   compared with the stored pair. *)
MergeBucket_AlwaysWrite(f, row, number_of_targets, node, source_weight, source_duration, t, current_bucket) ==
    LET cell == row * number_of_targets + current_bucket.column_index
        new_weight == source_weight + current_bucket.weight
        new_duration == source_duration + current_bucket.duration
    IN  IF new_weight >= 0
        THEN [weights |-> [t.weights EXCEPT ![cell] = new_weight],
              durations |-> [t.durations EXCEPT ![cell] = new_duration],
              middle_nodes |-> [t.middle_nodes EXCEPT ![cell] = node]]
        ELSE t

(* Mutant of MergeBucket: the cell is indexed as column * number_of_targets
   + row. *)
MergeBucket_Transposed(f, row, number_of_targets, node, source_weight, source_duration, t, current_bucket) ==
    LET cell == current_bucket.column_index * number_of_targets + row
        new_weight == source_weight + current_bucket.weight
        new_duration == source_duration + current_bucket.duration
    IN  IF cell \in DOMAIN t.weights /\ new_weight >= 0
           /\ TieLess(new_weight, new_duration, t.weights[cell], t.durations[cell])
        THEN [weights |-> [t.weights EXCEPT ![cell] = new_weight],
              durations |-> [t.durations EXCEPT ![cell] = new_duration],
              middle_nodes |-> [t.middle_nodes EXCEPT ![cell] = node]]
        ELSE t

(***************************************************************************)
(* forwardRoutingStep, the body of the loop over the bucket range: the     *)
(* tables after one bucket entry has been examined.                        *)
(***************************************************************************)
MergeBucket(f, row, number_of_targets, node, source_weight, source_duration, t, current_bucket) ==
    LET cell == row * number_of_targets + current_bucket.column_index
        current_weight == t.weights[cell]
        current_duration == t.durations[cell]
        new_weight == source_weight + current_bucket.weight
        new_duration == source_duration + current_bucket.duration
    IN  IF new_weight < 0
        THEN
            LET r == addLoopWeight(f, node, new_weight, new_duration)
            IN  IF r.ok
                THEN [weights |-> [t.weights EXCEPT ![cell] = Min2(current_weight, r.weight)],
                      durations |-> [t.durations EXCEPT ![cell] = Min2(current_duration, r.duration)],
                      middle_nodes |-> [t.middle_nodes EXCEPT ![cell] = node]]
                ELSE t
        ELSE IF TieLess(new_weight, new_duration, current_weight, current_duration)
             THEN [weights |-> [t.weights EXCEPT ![cell] = new_weight],
                   durations |-> [t.durations EXCEPT ![cell] = new_duration],
                   middle_nodes |-> [t.middle_nodes EXCEPT ![cell] = node]]
             ELSE t

(* The loop over the bucket range [pos, last). *)
RECURSIVE MergeBuckets(_, _, _, _, _, _, _, _, _, _)
MergeBuckets(f, row, number_of_targets, node, source_weight, source_duration, t, list, pos, last) ==
    IF pos >= last THEN t
    ELSE MergeBuckets(f, row, number_of_targets, node, source_weight, source_duration,
                      MergeBucket(f, row, number_of_targets, node, source_weight,
                                  source_duration, t, list[pos]),
                      list, pos + 1, last)

(* forwardRoutingStep: [heap, tables, node] *)
forwardRoutingStep(f, row, number_of_targets, h, list, t) ==
    LET node == MinNode(h)
        popped == DeleteMin(h)
        source_weight == GetKey(popped, node)
        source_duration == GetData(popped, node).duration
        bucket_list == EqualRange(list, node, 0, FALSE)
    IN  [heap |-> relaxOutgoingEdges(FORWARD_DIRECTION, f, node, source_weight,
                                     source_duration, popped),
         tables |-> MergeBuckets(f, row, number_of_targets, node, source_weight,
                                 source_duration, t, list, bucket_list.first,
                                 bucket_list.second),
         node |-> node]

(* Mutant of backwardRoutingStep: the entry names the node itself as its
   parent. *)
backwardRoutingStep_OwnParent(f, column, h, list) ==
    LET node == MinNode(h)
        popped == DeleteMin(h)
        target_weight == GetKey(popped, node)
        target_duration == GetData(popped, node).duration
    IN  [heap |-> relaxOutgoingEdges(REVERSE_DIRECTION, f, node, target_weight,
                                     target_duration, popped),
         buckets |-> Append(list, NodeBucket(node, node, column, target_weight,
                                             target_duration)),
         node |-> node]

(* backwardRoutingStep: [heap, buckets, node] *)
backwardRoutingStep(f, column, h, list) ==
    LET node == MinNode(h)
        popped == DeleteMin(h)
        target_weight == GetKey(popped, node)
        target_duration == GetData(popped, node).duration
        parent == GetData(popped, node).parent
    IN  [heap |-> relaxOutgoingEdges(REVERSE_DIRECTION, f, node, target_weight,
                                     target_duration, popped),
         buckets |-> Append(list, NodeBucket(node, parent, column, target_weight,
                                             target_duration)),
         node |-> node]

----------------------------------------------------------------------------
(***************************************************************************)
(* Path reconstruction.  A read at a position outside the container is     *)
(* undefined: it yields the value `garbage` (some node id, or a value that *)
(* is no node id) and is recorded in `oob`.                                *)
(***************************************************************************)
GarbageNodes == {0, SPECIAL_NODEID}

(* The loop of retrievePackedPathFromSearchSpace from bucket_list.first = pos;
   path already holds the nodes appended so far. *)
RECURSIVE WalkBuckets(_, _, _, _, _, _, _)
WalkBuckets(list, column, pos, path, oob, fuel, garbage) ==
    LET at_end == pos > Len(list)
        cur == IF at_end THEN garbage ELSE list[pos]
    IN  IF ~(cur.parent_node # cur.middle_node /\ ~at_end)
        THEN [path |-> path, oob |-> oob \/ at_end, terminated |-> TRUE]
        ELSE IF fuel = 0
             THEN [path |-> path, oob |-> oob, terminated |-> FALSE]
             ELSE WalkBuckets(list, column,
                              EqualRange(list, cur.parent_node, column, TRUE).first,
                              Append(path, cur.parent_node), oob, fuel - 1, garbage)

(* Mutant of retrievePackedPathFromSearchSpace: the first lookup compares
   the node only (NodeBucket::Compare instead of ColumnCompare). *)
retrievePackedPathFromSearchSpace_NodeCompare(middle_node, column, list, garbage) ==
    LET first == EqualRange(list, middle_node, column, FALSE).first
        at_end == first > Len(list)
        cur == IF at_end THEN garbage ELSE list[first]
    IN  WalkBuckets(list, column, first, <<cur.middle_node>>, at_end, Len(list) + 1, garbage)

retrievePackedPathFromSearchSpace(middle_node, column, list, garbage) ==
    LET first == EqualRange(list, middle_node, column, TRUE).first
        at_end == first > Len(list)
        cur == IF at_end THEN garbage ELSE list[first]
    IN  WalkBuckets(list, column, first, <<cur.middle_node>>, at_end, Len(list) + 1, garbage)

(* ch::retrievePackedPathFromSingleManyToManyHeap: follow the parents in
   the heap of the row until a root or a parent that was never inserted. *)
RECURSIVE WalkHeap(_, _, _, _, _, _)
WalkHeap(h, current, path, oob, fuel, garbage) ==
    LET known == WasInserted(h, current)
        parent == IF known THEN GetData(h, current).parent ELSE garbage
    IN  IF ~(current # parent /\ WasInserted(h, parent))
        THEN [path |-> path, oob |-> oob \/ ~known, terminated |-> TRUE]
        ELSE IF fuel = 0
             THEN [path |-> path, oob |-> oob \/ ~known, terminated |-> FALSE]
             ELSE WalkHeap(h, parent, Append(path, parent), oob \/ ~known, fuel - 1, garbage)

retrievePackedPathFromSingleManyToManyHeap(h, middle_node_id, garbage) ==
    WalkHeap(h, middle_node_id, <<>>, FALSE, Cardinality(DOMAIN h) + 1, garbage)

----------------------------------------------------------------------------
(***************************************************************************)
(* manyToManySearch.                                                       *)
(***************************************************************************)
number_of_sources == Len(source_indices)
number_of_targets == Len(target_indices)
number_of_entries == number_of_sources * number_of_targets

Cells == 0 .. (number_of_entries - 1)
Rows == 0 .. (number_of_sources - 1)
Columns == 0 .. (number_of_targets - 1)

SourcePhantom(row) == phantom_nodes[source_indices[row + 1]]
TargetPhantom(column) == phantom_nodes[target_indices[column + 1]]

Tables == [weights |-> weights_table, durations |-> durations_table,
           middle_nodes |-> middle_nodes_table]

NoPaths ==
    /\ packed_path_from_middle_to_target' = <<>>
    /\ packed_path_from_source_to_middle' = <<>>
    /\ out_of_range_read' = FALSE

Query == <<facade, phantom_nodes, source_indices, target_indices>>

(* Mutant of BackwardInit: the heap of the previous search is not cleared. *)
BackwardInit_NoClear ==
    /\ pc = "backward_loop"
    /\ column_idx < number_of_targets
    /\ query_heap' = insertTargetInHeap(query_heap, TargetPhantom(column_idx))
    /\ pc' = "backward_search"
    /\ last_node' = SPECIAL_NODEID
    /\ NoPaths
    /\ UNCHANGED <<Query, first_run, column_idx, path_column_idx, row_idx, search_space_with_buckets,
                   weights_table, durations_table, middle_nodes_table, settled>>

(* Top of the backward loop: clear the heap and insert the target. *)
BackwardInit ==
    /\ pc = "backward_loop"
    /\ column_idx < number_of_targets
    /\ query_heap' = insertTargetInHeap(ClearedHeap, TargetPhantom(column_idx))
    /\ pc' = "backward_search"
    /\ last_node' = SPECIAL_NODEID
    /\ NoPaths
    /\ UNCHANGED <<Query, first_run, column_idx, path_column_idx, row_idx, search_space_with_buckets,
                   weights_table, durations_table, middle_nodes_table, settled>>

(* One backwardRoutingStep; when the heap is empty afterwards the while
   loop ends and the column loop advances. *)
BackwardStep ==
    /\ pc = "backward_search"
    /\ ~Empty(query_heap)
    /\ \E r \in {backwardRoutingStep(facade, column_idx, query_heap,
                                      search_space_with_buckets)} :
           /\ query_heap' = r.heap
           /\ search_space_with_buckets' = r.buckets
           /\ last_node' = r.node
           /\ IF Empty(r.heap)
              THEN pc' = "backward_loop" /\ column_idx' = column_idx + 1
              ELSE pc' = pc /\ column_idx' = column_idx
    /\ NoPaths
    /\ UNCHANGED <<Query, first_run, path_column_idx, row_idx, weights_table, durations_table,
                   middle_nodes_table, settled>>

(* End of the backward loop: std::sort of the bucket list. *)
OrderBuckets ==
    /\ pc = "backward_loop"
    /\ column_idx = number_of_targets
    /\ search_space_with_buckets' = SortBuckets(search_space_with_buckets)
    /\ pc' = "forward_loop"
    /\ row_idx' = 0
    /\ NoPaths
    /\ UNCHANGED <<Query, first_run, column_idx, path_column_idx, query_heap, weights_table,
                   durations_table, middle_nodes_table, last_node, settled>>

(* Mutant of ForwardInit: the heap of the previous search is not cleared. *)
ForwardInit_NoClear ==
    /\ pc = "forward_loop"
    /\ row_idx < number_of_sources
    /\ query_heap' = insertSourceInHeap(query_heap, SourcePhantom(row_idx))
    /\ pc' = "forward_search"
    /\ last_node' = SPECIAL_NODEID
    /\ NoPaths
    /\ UNCHANGED <<Query, first_run, column_idx, path_column_idx, row_idx, search_space_with_buckets,
                   weights_table, durations_table, middle_nodes_table, settled>>

(* Top of the forward loop: clear the heap and insert the source. *)
ForwardInit ==
    /\ pc = "forward_loop"
    /\ row_idx < number_of_sources
    /\ query_heap' = insertSourceInHeap(ClearedHeap, SourcePhantom(row_idx))
    /\ pc' = "forward_search"
    /\ last_node' = SPECIAL_NODEID
    /\ NoPaths
    /\ UNCHANGED <<Query, first_run, column_idx, path_column_idx, row_idx, search_space_with_buckets,
                   weights_table, durations_table, middle_nodes_table, settled>>

(* After the last column of a row (or with no column at all) the row loop
   advances. *)
AfterColumn(column) ==
    IF column < number_of_targets
    THEN pc' = "retrieve" /\ row_idx' = row_idx /\ path_column_idx' = column
    ELSE pc' = "forward_loop" /\ row_idx' = row_idx + 1 /\ path_column_idx' = column

(* One forwardRoutingStep; when the heap is empty afterwards the while loop
   ends and the retrieval loop of the row starts. *)
ForwardStep ==
    /\ pc = "forward_search"
    /\ ~Empty(query_heap)
    /\ \E r \in {forwardRoutingStep(facade, row_idx, number_of_targets, query_heap,
                                     search_space_with_buckets, Tables)} :
           /\ query_heap' = r.heap
           /\ weights_table' = r.tables.weights
           /\ durations_table' = r.tables.durations
           /\ middle_nodes_table' = r.tables.middle_nodes
           /\ last_node' = r.node
           /\ settled' = [settled EXCEPT ![row_idx] = @ \cup {r.node}]
           /\ IF Empty(r.heap)
              THEN AfterColumn(0)
              ELSE pc' = pc /\ row_idx' = row_idx /\ path_column_idx' = path_column_idx
    /\ NoPaths
    /\ UNCHANGED <<Query, first_run, column_idx, search_space_with_buckets>>

(* One iteration of the retrieval loop: both half paths of cell
   (row_idx, path_column_idx). *)
Retrieve ==
    /\ pc = "retrieve"
    /\ path_column_idx < number_of_targets
    /\ LET middle_node_id == middle_nodes_table[row_idx * number_of_targets + path_column_idx]
           ToTarget(gm, gp) == retrievePackedPathFromSearchSpace(
                                   middle_node_id, path_column_idx, search_space_with_buckets,
                                   NodeBucket(gm, gp, 0, 0, 0))
           ToMiddle(gh) == retrievePackedPathFromSingleManyToManyHeap(
                               query_heap, middle_node_id, gh)
           \* what an out-of-range read may yield; a single value when no such read happens
           BucketReads == IF ToTarget(0, 0).oob THEN GarbageNodes ELSE {0}
           HeapReads == IF ToMiddle(0).oob THEN GarbageNodes ELSE {0}
       IN  \E gm, gp \in BucketReads, gh \in HeapReads :
              /\ packed_path_from_middle_to_target' = ToTarget(gm, gp).path
              /\ packed_path_from_source_to_middle' = ToMiddle(gh).path
              /\ out_of_range_read' = (ToTarget(gm, gp).oob \/ ToMiddle(gh).oob)
    /\ AfterColumn(path_column_idx + 1)
    /\ UNCHANGED <<Query, first_run, column_idx, query_heap, search_space_with_buckets, weights_table,
                   durations_table, middle_nodes_table, last_node, settled>>

(* return durations_table *)
Return ==
    /\ pc = "forward_loop"
    /\ row_idx = number_of_sources
    /\ pc' = "done"
    /\ NoPaths
    /\ UNCHANGED <<Query, first_run, column_idx, path_column_idx, row_idx, query_heap,
                   search_space_with_buckets, weights_table, durations_table,
                   middle_nodes_table, last_node, settled>>

(* A second call of manyToManySearch with the same facade, phantom nodes and
   indices: the tables and the bucket list are new (lines 215-219), the
   engine working data (the heap) is what the first call left behind. *)
SecondCall ==
    /\ pc = "done"
    /\ first_run = <<>>
    /\ first_run' = <<Tables>>
    /\ pc' = "backward_loop"
    /\ column_idx' = 0
    /\ path_column_idx' = 0
    /\ row_idx' = 0
    /\ search_space_with_buckets' = <<>>
    /\ weights_table' = [i \in Cells |-> INVALID_EDGE_WEIGHT]
    /\ durations_table' = [i \in Cells |-> MAXIMAL_EDGE_DURATION]
    /\ middle_nodes_table' = [i \in Cells |-> SPECIAL_NODEID]
    /\ last_node' = SPECIAL_NODEID
    /\ settled' = [r \in Rows |-> {}]
    /\ NoPaths
    /\ UNCHANGED <<Query, query_heap>>

Next ==
    \/ BackwardInit
    \/ BackwardStep
    \/ OrderBuckets
    \/ ForwardInit
    \/ ForwardStep
    \/ Retrieve
    \/ Return

----------------------------------------------------------------------------
(***************************************************************************)
(* Inputs.  The adjacency list of a node of a contraction hierarchy holds  *)
(* edges to nodes of higher rank (here: larger id) and self-loops.         *)
(***************************************************************************)
UpPairs == {p \in Nodes \X Nodes : p[1] < p[2]}

EdgeData ==
    {d \in [weight : 1 .. MaxEdgeWeight, duration : 1 .. MaxEdgeDuration,
            forward : BOOLEAN, backward : BOOLEAN] : d.forward \/ d.backward}

Edge(from, to, d) ==
    [from |-> from, to |-> to, weight |-> d.weight, duration |-> d.duration,
     forward |-> d.forward, backward |-> d.backward]

Absent == [weight |-> 0, duration |-> 0, forward |-> FALSE, backward |-> FALSE]

UpwardGraphs ==
    {{Edge(p[1], p[2], g[p]) : p \in {q \in UpPairs : g[q] # Absent}} :
        g \in [UpPairs -> EdgeData \cup {Absent}]}

Phantom(node, weight, duration) == [node |-> node, weight |-> weight, duration |-> duration]

InitQueryOn(number_of_nodes, edges, phantoms, sources, targets) ==
    /\ facade = [edges |-> edges, number_of_nodes |-> number_of_nodes]
    /\ phantom_nodes = phantoms
    /\ source_indices = sources
    /\ target_indices = targets
    /\ pc = "backward_loop"
    /\ column_idx = 0
    /\ path_column_idx = 0
    /\ row_idx = 0
    /\ query_heap = ClearedHeap
    /\ search_space_with_buckets = <<>>
    /\ weights_table = [i \in 0 .. (Len(sources) * Len(targets) - 1) |-> INVALID_EDGE_WEIGHT]
    /\ durations_table = [i \in 0 .. (Len(sources) * Len(targets) - 1) |-> MAXIMAL_EDGE_DURATION]
    /\ middle_nodes_table = [i \in 0 .. (Len(sources) * Len(targets) - 1) |-> SPECIAL_NODEID]
    /\ packed_path_from_middle_to_target = <<>>
    /\ packed_path_from_source_to_middle = <<>>
    /\ out_of_range_read = FALSE
    /\ last_node = SPECIAL_NODEID
    /\ settled = [r \in 0 .. (Len(sources) - 1) |-> {}]
    /\ first_run = <<>>

InitQuery(edges, phantoms, sources, targets) ==
    InitQueryOn(NumNodes, edges, phantoms, sources, targets)

(* Hierarchy queries: any upward graph, one phantom per node, every node a
   source and a target; at most one phantom has a positive offset. *)
InitHierarchy ==
    \E edges \in UpwardGraphs, far \in Nodes \cup {SPECIAL_NODEID} :
        InitQuery(edges,
                  [n \in 1 .. NumNodes |->
                      IF n - 1 = far THEN Phantom(n - 1, 1, 1) ELSE Phantom(n - 1, 0, 0)],
                  [n \in 1 .. NumNodes |-> n], [n \in 1 .. NumNodes |-> n])

(* Offset queries: two-way edges, at most one self-loop, a source phantom
   with a negative offset (twice, as two rows) and one target phantom. *)
TwoWayGraphs == {g \in UpwardGraphs : \A e \in g : e.forward /\ e.backward}

SelfLoops ==
    {{}} \cup {{Edge(n, n, d)} : n \in Nodes,
               d \in {x \in EdgeData : x.forward /\ ~x.backward}}

InitOffset ==
    \E edges \in TwoWayGraphs, loops \in SelfLoops, a, b \in Nodes, o \in 1 .. MaxOffset :
        InitQuery(edges \cup loops, <<Phantom(a, -o, 0), Phantom(b, 0, 0)>>,
                  <<1, 1>>, <<2>>)

Init == InitHierarchy \/ InitOffset

Spec == Init /\ [][Next]_vars

(* Queries of the termination check: any upward graph with every node a
   source and a target (no offsets), and the offset queries with the largest
   negative offset on node 0. *)
InitLive ==
    \/ \E edges \in UpwardGraphs :
          InitQuery(edges, [n \in 1 .. NumNodes |-> Phantom(n - 1, 0, 0)],
                    [n \in 1 .. NumNodes |-> n], [n \in 1 .. NumNodes |-> n])
    \/ \E edges \in TwoWayGraphs, loops \in SelfLoops, b \in Nodes :
          InitQuery(edges \cup loops, <<Phantom(0, -MaxOffset, 0), Phantom(b, 0, 0)>>,
                    <<1, 1>>, <<2>>)

(* Stall queries: two-way graphs on StallNodes nodes (a node can be reached
   upwards through a stalled node only when there are four ranks), every
   node a source and a target; the phantom of node 0 has no offset or the
   largest negative one. *)
StallPairs == {p \in (0 .. (StallNodes - 1)) \X (0 .. (StallNodes - 1)) : p[1] < p[2]}

StallGraphs ==
    {{Edge(p[1], p[2], g[p]) : p \in {q \in StallPairs : g[q] # Absent}} :
        g \in [StallPairs -> {d \in EdgeData : d.forward /\ d.backward} \cup {Absent}]}

InitStall ==
    \E edges \in StallGraphs, o \in {0, MaxOffset} :
        InitQueryOn(StallNodes, edges,
                    [n \in 1 .. StallNodes |->
                        IF n = 1 THEN Phantom(0, -o, 0) ELSE Phantom(n - 1, 0, 0)],
                    [n \in 1 .. StallNodes |-> n], [n \in 1 .. StallNodes |-> n])

StallSpec == InitStall /\ [][Next]_vars

(* Symmetric queries: an undirected graph (every edge and self-loop usable
   in both directions with one weight and one duration, short or long), one
   phantom per node, the same list as sources and as targets; the phantom of
   node 0 has no offset or the largest negative one. *)
UndirectedData ==
    {d \in [weight : 1 .. MaxEdgeWeight, duration : {1, LongDuration},
            forward : {TRUE}, backward : {TRUE}] : TRUE}

UndirectedGraphs ==
    {{Edge(p[1], p[2], g[p]) : p \in {q \in UpPairs : g[q] # Absent}} :
        g \in [UpPairs -> UndirectedData \cup {Absent}]}

UndirectedLoops ==
    {{}} \cup {{Edge(n, n, d)} : n \in Nodes, d \in {x \in UndirectedData : x.duration = 1}}

InitSymmetric ==
    \E edges \in UndirectedGraphs, loops \in UndirectedLoops, o \in {0, MaxOffset} :
        InitQuery(edges \cup loops,
                  [n \in 1 .. NumNodes |->
                      IF n = 1 THEN Phantom(0, -o, 0) ELSE Phantom(n - 1, 0, 0)],
                  [n \in 1 .. NumNodes |-> n], [n \in 1 .. NumNodes |-> n])

SymmetricSpec == InitSymmetric /\ [][Next]_vars

(* One call followed by a second call with the same arguments. *)
NextTwice == Next \/ SecondCall

TwiceSpec == InitLive /\ [][NextTwice]_vars

(* manyToManySearch is one sequential call: while a step is possible the
   call takes one. *)
LiveSpec == InitLive /\ [][Next]_vars /\ WF_vars(Next)

----------------------------------------------------------------------------
(***************************************************************************)
(* Reference notions used by the properties.                               *)
(***************************************************************************)
Unreachable == INVALID_EDGE_WEIGHT

Plus(a, b) == IF a = Unreachable \/ b = Unreachable THEN Unreachable ELSE a + b

(* One round of relaxation of the distance matrix D over the arcs. *)
RelaxAll(D, arcs) ==
    [p \in GraphNodes \X GraphNodes |->
        SetMin({D[p]} \cup {Plus(D[<<p[1], a.from>>], a.weight) : a \in {x \in arcs : x.to = p[2]}})]

RECURSIVE Closure(_, _, _)
Closure(D, arcs, k) == IF k = 0 THEN D ELSE Closure(RelaxAll(D, arcs), arcs, k - 1)

(* All-pairs shortest-path weights over a set of arcs [from, to, weight]. *)
AllPairs(arcs) ==
    Closure([p \in GraphNodes \X GraphNodes |-> IF p[1] = p[2] THEN 0 ELSE Unreachable],
            arcs, facade.number_of_nodes)

Arc(from, to, weight) == [from |-> from, to |-> to, weight |-> weight]

(* The directed graph the hierarchy stands for: a forward edge leads from
   its owner to its target, a backward edge from its target to its owner. *)
RealArcs(f) ==
    {Arc(e.from, e.to, e.weight) : e \in {x \in f.edges : x.forward}} \cup
    {Arc(e.to, e.from, e.weight) : e \in {x \in f.edges : x.backward}}

UpArcs(f, direction) ==
    {Arc(e.from, e.to, e.weight) : e \in {x \in f.edges : EdgeUsable(direction, x)}}

(* The least weight of a path that first climbs forward edges and then
   descends backward edges. *)
UpDownWeights(f) ==
    LET Up == AllPairs(UpArcs(f, FORWARD_DIRECTION))
        Down == AllPairs(UpArcs(f, REVERSE_DIRECTION))
    IN  [p \in GraphNodes \X GraphNodes |->
            SetMin({Plus(Up[<<p[1], m>>], Down[<<p[2], m>>]) : m \in GraphNodes})]

(* A hierarchy preserves the shortest-path weights of its graph. *)
IsHierarchy(f) == UpDownWeights(f) = AllPairs(RealArcs(f))

(* The weight of the best route from the source of row r to the target of
   column c, offsets included. *)
RouteWeight(D, r, c) ==
    LET d == D[<<SourcePhantom(r).node, TargetPhantom(c).node>>]
    IN  IF d = Unreachable THEN INVALID_EDGE_WEIGHT
        ELSE SourcePhantom(r).weight + d + TargetPhantom(c).weight

TrueWeight(r, c) == RouteWeight(AllPairs(RealArcs(facade)), r, c)

Cell(r, c) == r * number_of_targets + c

----------------------------------------------------------------------------
(* C1 (as stated): when the search has completed on a hierarchy, every cell
   holds the true shortest-path weight from its source to its target, and
   the unreachable sentinel exactly when there is no path. *)
C1_Original ==
    (pc = "done" /\ IsHierarchy(facade)) =>
        \A r \in Rows, c \in Columns : weights_table[Cell(r, c)] = TrueWeight(r, c)

(* C1 (amended): when the search has completed on a hierarchy, every cell
   whose source has no path to its target holds the unreachable sentinel,
   and every cell whose best route has a non-negative weight (source offset
   + path + target offset) holds that weight. *)
C1_ShortestWeights ==
    (pc = "done" /\ IsHierarchy(facade)) =>
        \A r \in Rows, c \in Columns :
            TrueWeight(r, c) >= 0 => weights_table[Cell(r, c)] = TrueWeight(r, c)

(* C1 witness: a completed search on a hierarchy with a cell that holds the
   weight of a route over at least two edges through a higher node, and a
   cell that holds the sentinel. *)
C1_Witness ==
    /\ pc = "done"
    /\ IsHierarchy(facade)
    /\ \E r \in Rows, c \in Columns :
          /\ weights_table[Cell(r, c)] = TrueWeight(r, c)
          /\ weights_table[Cell(r, c)] >= 2
          /\ middle_nodes_table[Cell(r, c)] \notin
                {SourcePhantom(r).node, TargetPhantom(c).node}
    /\ \E r \in Rows, c \in Columns : weights_table[Cell(r, c)] = INVALID_EDGE_WEIGHT

----------------------------------------------------------------------------
(***************************************************************************)
(* What a forward step is about to do: the node it settles, the node's     *)
(* forward cost, and per bucket entry of that node the candidate after the *)
(* self-loop correction (valid = FALSE: the candidate is discarded).       *)
(***************************************************************************)
InForwardStep == pc = "forward_search" /\ ~Empty(query_heap)

StepNode == MinNode(query_heap)

BucketsOf(node) ==
    {search_space_with_buckets[i] : i \in
        {j \in 1 .. Len(search_space_with_buckets) :
            search_space_with_buckets[j].middle_node = node}}

RawWeight(b) == GetKey(query_heap, StepNode) + b.weight
RawDuration(b) == GetData(query_heap, StepNode).duration + b.duration

Candidate(b) ==
    IF RawWeight(b) < 0
    THEN LET r == addLoopWeight(facade, StepNode, RawWeight(b), RawDuration(b))
         IN  [valid |-> r.ok, weight |-> r.weight, duration |-> r.duration]
    ELSE [valid |-> TRUE, weight |-> RawWeight(b), duration |-> RawDuration(b)]

CellChanged(cell) ==
    \/ weights_table'[cell] # weights_table[cell]
    \/ durations_table'[cell] # durations_table[cell]
    \/ middle_nodes_table'[cell] # middle_nodes_table[cell]

(* C2: in every forward step, for every bucket entry of the settled node,
   the cell is changed only if the candidate, after any self-loop
   correction, is strictly lexicographically smaller than the stored
   (weight, duration); otherwise all three tables keep the cell. *)
C2_UpdateOnlyIfSmaller ==
    [][InForwardStep =>
         \A b \in BucketsOf(StepNode) :
            LET cell == Cell(row_idx, b.column_index)
            IN  CellChanged(cell) =>
                   /\ Candidate(b).valid
                   /\ TieLess(Candidate(b).weight, Candidate(b).duration,
                              weights_table[cell], durations_table[cell])]_vars

----------------------------------------------------------------------------
(* The routing step that led to this state settled last_node in a forward
   search of row_idx (the row loop has not advanced yet). *)
AfterForwardStep == last_node # SPECIAL_NODEID /\ pc \in {"forward_search", "retrieve"}

(* C3: when the sum of the forward cost of the settled node and a bucket
   entry's weight is negative, and the node has no self-loop or the sum plus
   the self-loop weight is still negative, the three tables keep the cell
   exactly as it was. *)
C3_NegativeCandidateDiscarded ==
    [][InForwardStep =>
         \A b \in BucketsOf(StepNode) :
            (/\ RawWeight(b) < 0
             /\ \/ GetLoopWeight(facade, StepNode) = INVALID_EDGE_WEIGHT
                \/ RawWeight(b) + GetLoopWeight(facade, StepNode) < 0)
            => ~CellChanged(Cell(row_idx, b.column_index))]_vars

(* C3 witness: a forward step has just settled a node that has a self-loop
   and a bucket entry whose sum with the node's forward cost stays negative
   even with the self-loop weight added; the cell still holds the sentinels. *)
C3_Witness ==
    /\ AfterForwardStep
    /\ \E b \in BucketsOf(last_node) :
          /\ GetKey(query_heap, last_node) + b.weight < 0
          /\ GetLoopWeight(facade, last_node) # INVALID_EDGE_WEIGHT
          /\ GetKey(query_heap, last_node) + b.weight + GetLoopWeight(facade, last_node) < 0
          /\ weights_table[Cell(row_idx, b.column_index)] = INVALID_EDGE_WEIGHT
          /\ middle_nodes_table[Cell(row_idx, b.column_index)] = SPECIAL_NODEID

(* C4: a path is retrieved only for a cell whose middle node is a real node
   with a bucket entry for the column, and no retrieval reads a position at
   or past the end of the bucket list (or outside the heap's storage). *)
C4_NoRetrievalForSentinel ==
    /\ pc = "retrieve" =>
          \E b \in BucketsOf(middle_nodes_table[Cell(row_idx, path_column_idx)]) :
              b.column_index = path_column_idx
    /\ ~out_of_range_read

(* The nodes with a bucket entry of column c. *)
BucketNodes(c) ==
    {search_space_with_buckets[i].middle_node : i \in
        {j \in 1 .. Len(search_space_with_buckets) :
            search_space_with_buckets[j].column_index = c}}

(* C5: the middle node of every cell (r,c) is the sentinel or a node that
   row r's forward search settled and that has a bucket entry of column c. *)
C5_MiddleNodeIsMeetingNode ==
    \A r \in Rows, c \in Columns :
        \/ middle_nodes_table[Cell(r, c)] = SPECIAL_NODEID
        \/ /\ middle_nodes_table[Cell(r, c)] \in settled[r]
           /\ middle_nodes_table[Cell(r, c)] \in BucketNodes(c)

(* C5 witness: the search is complete and some row has a middle node that is
   neither its source's nor its target's node. *)
C5_Witness ==
    /\ pc = "done"
    /\ \E r \in Rows, c \in Columns :
          /\ middle_nodes_table[Cell(r, c)] # SPECIAL_NODEID
          /\ middle_nodes_table[Cell(r, c)] \in settled[r] \cap BucketNodes(c)
          /\ middle_nodes_table[Cell(r, c)] \notin
                {SourcePhantom(r).node, TargetPhantom(c).node}

(* The cells of a finished row without any node settled by both sweeps keep
   the three sentinels. *)
UnmetCellsKeepSentinels ==
    pc = "done" =>
        \A r \in Rows, c \in Columns :
            settled[r] \cap BucketNodes(c) = {} =>
                /\ weights_table[Cell(r, c)] = INVALID_EDGE_WEIGHT
                /\ durations_table[Cell(r, c)] = MAXIMAL_EDGE_DURATION
                /\ middle_nodes_table[Cell(r, c)] = SPECIAL_NODEID

(* The step that led to this state retrieved the paths of cell
   (RetrievedRow, RetrievedColumn). *)
JustRetrieved == packed_path_from_middle_to_target # <<>>
RetrievedRow == IF pc = "retrieve" THEN row_idx ELSE row_idx - 1
RetrievedColumn == IF pc = "retrieve" THEN path_column_idx - 1 ELSE number_of_targets - 1

(* C6: a cell (r,c) without any node settled by both column c's backward
   sweep and row r's forward sweep keeps the three sentinels, and the search
   completes normally: handling such a cell reads nothing outside a
   container. *)
C6_UnreachablePairIsNormal ==
    /\ UnmetCellsKeepSentinels
    /\ (JustRetrieved /\ settled[RetrievedRow] \cap BucketNodes(RetrievedColumn) = {})
          => ~out_of_range_read

----------------------------------------------------------------------------
NonNegativeOffsets ==
    \A i \in 1 .. Len(phantom_nodes) :
        phantom_nodes[i].weight >= 0 /\ phantom_nodes[i].duration >= 0

(* C7: with non-negative phantom offsets (edge and self-loop durations are
   non-negative in every facade), every cell whose middle node is not the
   sentinel holds a duration >= 0. *)
C7_DurationsNonNegative ==
    NonNegativeOffsets =>
        \A cell \in Cells :
            middle_nodes_table[cell] # SPECIAL_NODEID => durations_table[cell] >= 0

(* C7 witness: a completed search with non-negative offsets and a reachable
   cell whose duration adds a phantom offset and edge durations. *)
C7_Witness ==
    /\ pc = "done"
    /\ NonNegativeOffsets
    /\ \E r \in Rows, c \in Columns :
          /\ middle_nodes_table[Cell(r, c)] # SPECIAL_NODEID
          /\ SourcePhantom(r).duration + TargetPhantom(c).duration > 0
          /\ durations_table[Cell(r, c)] >= 2

----------------------------------------------------------------------------
IsSorted(list) ==
    \A i \in 1 .. (Len(list) - 1) : ~BucketLess(list[i + 1], list[i])

(* The backward loop has left its last column (the while loop of every
   column ran until the heap was empty), and the bucket list holds every
   column's own target node. *)
EveryColumnSwept ==
    /\ column_idx = number_of_targets
    /\ pc # "backward_search"
    /\ \A c \in Columns : TargetPhantom(c).node \in BucketNodes(c)

ForwardPhase == pc \in {"forward_loop", "forward_search", "retrieve", "done"}

(* C8: no forward step runs before every column has been swept and the
   bucket list sorted, and from the end of the sort on no step changes the
   bucket list. *)
C8_BucketLifecycle ==
    [][/\ InForwardStep => (EveryColumnSwept /\ IsSorted(search_space_with_buckets))
       /\ ForwardPhase => search_space_with_buckets' = search_space_with_buckets]_vars

(* C8 witness: a forward step of the second row has run over a bucket list
   of several columns whose insertion order was not the sorted order. *)
C8_Witness ==
    /\ AfterForwardStep
    /\ row_idx >= 1
    /\ number_of_targets >= 2
    /\ \E i, j \in 1 .. Len(search_space_with_buckets) :
          /\ i < j
          /\ search_space_with_buckets[i].column_index >
                search_space_with_buckets[j].column_index

----------------------------------------------------------------------------
(* The heap holds exactly the seed of the phantom: its anchor is inserted
   and queued with the phantom's offset and itself as parent, and no other
   node was inserted. *)
HoldsExactlySeeds(h, phantom) ==
    /\ \A n \in DOMAIN h : h[n].inserted <=> n = phantom.node
    /\ \A n \in DOMAIN h : h[n].queued <=> n = phantom.node
    /\ GetKey(h, phantom.node) = phantom.weight
    /\ GetData(h, phantom.node) = [parent |-> phantom.node, duration |-> phantom.duration]

SearchStarts == pc \in {"backward_loop", "forward_loop"} /\ pc' \in {"backward_search", "forward_search"}

(* C9: every backward and every forward search starts with a heap that
   holds exactly the seeds of its phantom, whatever searches ran before;
   and when the search is complete two rows that address the same phantom
   hold identical cells. *)
C9_HeapResetBetweenSearches ==
    /\ [][SearchStarts =>
            HoldsExactlySeeds(query_heap',
                              IF pc = "backward_loop" THEN TargetPhantom(column_idx)
                              ELSE SourcePhantom(row_idx))]_vars
    /\ [](pc = "done" =>
            \A r1, r2 \in Rows :
                source_indices[r1 + 1] = source_indices[r2 + 1] =>
                    \A c \in Columns :
                        /\ weights_table[Cell(r1, c)] = weights_table[Cell(r2, c)]
                        /\ durations_table[Cell(r1, c)] = durations_table[Cell(r2, c)]
                        /\ middle_nodes_table[Cell(r1, c)] = middle_nodes_table[Cell(r2, c)])

(* C9 witness: the search is complete, rows 0 and 1 address the same phantom,
   the search of row 0 inserted more nodes than its seed, and the rows hold
   a cell that is not the sentinel. *)
C9_Witness ==
    /\ pc = "done"
    /\ number_of_sources >= 2
    /\ source_indices[1] = source_indices[2]
    /\ Cardinality(settled[0]) >= 2
    /\ \E c \in Columns :
          /\ middle_nodes_table[Cell(0, c)] # SPECIAL_NODEID
          /\ middle_nodes_table[Cell(0, c)] # SourcePhantom(0).node
          /\ middle_nodes_table[Cell(1, c)] = middle_nodes_table[Cell(0, c)]

----------------------------------------------------------------------------
(* The bucket entry of node n in column c. *)
EntryOf(list, n, c) ==
    list[CHOOSE i \in 1 .. Len(list) :
            list[i].middle_node = n /\ list[i].column_index = c]

EntriesOfColumn(list, c) == SelectSeq(list, LAMBDA b : b.column_index = c)

NoRead == NodeBucket(SPECIAL_NODEID, SPECIAL_NODEID, 0, 0, 0)

(* C10: on the sorted bucket list, for every column c and every node m with
   a bucket entry of column c, retrievePackedPathFromSearchSpace(m, c)
   terminates without reading outside the list and returns a sequence that
   starts with m, continues each time with the parent_node of the column-c
   entry of the previous node, and ends with a node whose column-c entry is
   its own parent; the entries of the other columns do not influence it. *)
C10_PackedPathFollowsParents ==
    ForwardPhase =>
        \A i \in 1 .. Len(search_space_with_buckets) :
            LET list == search_space_with_buckets
                m == list[i].middle_node
                c == list[i].column_index
                r == retrievePackedPathFromSearchSpace(m, c, list, NoRead)
            IN  /\ r.terminated
                /\ ~r.oob
                /\ r.path[1] = m
                /\ \A k \in 1 .. (Len(r.path) - 1) :
                      r.path[k + 1] = EntryOf(list, r.path[k], c).parent_node
                /\ EntryOf(list, r.path[Len(r.path)], c).parent_node = r.path[Len(r.path)]
                /\ r.path = retrievePackedPathFromSearchSpace(
                                m, c, EntriesOfColumn(list, c), NoRead).path

(* C10 witness: a retrieval step has returned a path of three nodes from a
   bucket list in which the nodes of the path also have entries of another
   column with a different parent. *)
C10_Witness ==
    /\ JustRetrieved
    /\ ~out_of_range_read
    /\ Len(packed_path_from_middle_to_target) >= 3
    /\ \E b \in BucketsOf(packed_path_from_middle_to_target[1]) :
          /\ b.column_index # RetrievedColumn
          /\ b.parent_node # packed_path_from_middle_to_target[2]

----------------------------------------------------------------------------
InBackwardStep == pc = "backward_search" /\ ~Empty(query_heap)

(* C11: within one backward or forward search no node is popped twice (the
   node a step pops was not popped before in the same search), so every
   search pops at most node-count nodes, and manyToManySearch eventually
   returns. *)
C11_SearchTerminates ==
    /\ [][/\ InBackwardStep => MinNode(query_heap) \notin BucketNodes(column_idx)
          /\ InForwardStep => StepNode \notin settled[row_idx]]_vars
    /\ [](\A c \in Columns :
            Len(EntriesOfColumn(search_space_with_buckets, c)) <= facade.number_of_nodes)
    /\ <>(pc = "done")

(* C11 witness: the search has returned after a backward and a forward
   search that each popped every node of the graph, one of them reached
   over two different routes. *)
C11_Witness ==
    /\ pc = "done"
    /\ \E c \in Columns : BucketNodes(c) = GraphNodes
    /\ \E r \in Rows : settled[r] = GraphNodes
    /\ \E e1, e2 \in facade.edges : e1.to = e2.to /\ e1.from # e2.from /\ e1.forward /\ e2.forward

----------------------------------------------------------------------------
(* C12: no step of the search increases the weight of any cell; in
   particular every forwardRoutingStep leaves every weights[r,c] equal to or
   smaller than before. *)
C12_WeightsNeverIncrease ==
    [][\A cell \in Cells : weights_table'[cell] <= weights_table[cell]]_vars

(* C12 witness: a forward step has lowered a cell that an earlier step of
   the same row had already set: an earlier settled node (smaller key) with
   a bucket entry of the column offers a larger weight than the cell holds. *)
C12_Witness ==
    /\ AfterForwardStep
    /\ \E c \in Columns :
          /\ middle_nodes_table[Cell(row_idx, c)] = last_node
          /\ \E n \in (settled[row_idx] \cap BucketNodes(c)) \ {last_node} :
                /\ GetKey(query_heap, n) < GetKey(query_heap, last_node)
                /\ GetKey(query_heap, n) >= 0
                /\ GetKey(query_heap, n) + EntryOf(search_space_with_buckets, n, c).weight
                      > weights_table[Cell(row_idx, c)]

----------------------------------------------------------------------------
(***************************************************************************)
(* The whole search as a function of the query, with the stall check       *)
(* (pruned = TRUE) or without it.  The sweeps are the loops of             *)
(* manyToManySearch over backwardRoutingStep and forwardRoutingStep; the   *)
(* unpruned search relaxes the edges of every settled node.                *)
(***************************************************************************)
HeapAfterStep(pruned, direction, h, stepped) ==
    IF pruned THEN stepped
    ELSE relaxOutgoingEdges_Unpruned(direction, facade, MinNode(h), GetKey(h, MinNode(h)),
                                     GetData(h, MinNode(h)).duration, DeleteMin(h))

RECURSIVE BackwardSweep(_, _, _, _)
BackwardSweep(pruned, column, h, list) ==
    IF Empty(h) THEN list
    ELSE LET r == backwardRoutingStep(facade, column, h, list)
         IN  BackwardSweep(pruned, column,
                           HeapAfterStep(pruned, REVERSE_DIRECTION, h, r.heap), r.buckets)

RECURSIVE BackwardSweeps(_, _, _)
BackwardSweeps(pruned, column, list) ==
    IF column >= number_of_targets THEN list
    ELSE LET swept == BackwardSweep(pruned, column,
                                    insertTargetInHeap(ClearedHeap, TargetPhantom(column)),
                                    list)
         IN  \* the comparison makes TLC finish this sweep before the next one
             IF swept = swept THEN BackwardSweeps(pruned, column + 1, swept) ELSE list

RECURSIVE ForwardSweep(_, _, _, _, _)
ForwardSweep(pruned, row, h, list, t) ==
    IF Empty(h) THEN t
    ELSE LET r == forwardRoutingStep(facade, row, number_of_targets, h, list, t)
         IN  ForwardSweep(pruned, row, HeapAfterStep(pruned, FORWARD_DIRECTION, h, r.heap),
                          list, r.tables)

RECURSIVE ForwardSweeps(_, _, _, _)
ForwardSweeps(pruned, row, list, t) ==
    IF row >= number_of_sources THEN t
    ELSE LET swept == ForwardSweep(pruned, row,
                                   insertSourceInHeap(ClearedHeap, SourcePhantom(row)),
                                   list, t)
         IN  \* the comparison makes TLC finish this sweep before the next one
             IF swept = swept THEN ForwardSweeps(pruned, row + 1, list, swept) ELSE t

SearchBuckets(pruned) == SortBuckets(BackwardSweeps(pruned, 0, <<>>))

SearchTables(pruned) ==
    LET sorted == SearchBuckets(pruned)
        cleared == [weights |-> [i \in Cells |-> INVALID_EDGE_WEIGHT],
                    durations |-> [i \in Cells |-> MAXIMAL_EDGE_DURATION],
                    middle_nodes |-> [i \in Cells |-> SPECIAL_NODEID]]
    IN  IF sorted = sorted THEN ForwardSweeps(pruned, 0, sorted, cleared) ELSE cleared

(* The function agrees with the stepwise search. *)
SearchTablesAreTheTables == pc = "done" => Tables = SearchTables(TRUE)

(* C13 (as stated): on a hierarchy, the weights and durations tables of the
   completed search equal, cell by cell, those of the same search without
   the stall check. *)
C13_Original ==
    (pc = "done" /\ IsHierarchy(facade)) =>
        /\ weights_table = SearchTables(FALSE).weights
        /\ durations_table = SearchTables(FALSE).durations

(* C13 (amended): on a hierarchy, every cell whose best route has a
   non-negative weight (offsets included), or whose source has no path to
   its target, holds after the completed search the weight and the duration
   that the same search without the stall check computes for it. *)
C13_StallKeepsTheAnswer ==
    (pc = "done" /\ IsHierarchy(facade)) =>
        LET unpruned == SearchTables(FALSE)
            D == AllPairs(RealArcs(facade))
        IN  \A r \in Rows, c \in Columns :
                RouteWeight(D, r, c) >= 0 =>
                    /\ weights_table[Cell(r, c)] = unpruned.weights[Cell(r, c)]
                    /\ durations_table[Cell(r, c)] = unpruned.durations[Cell(r, c)]

(* C13 witness: a completed search on a hierarchy in which the stall check
   pruned the exploration: without it the backward sweeps settle more nodes,
   and a cell with a route keeps the same weight. *)
C13_Witness ==
    /\ pc = "done"
    /\ IsHierarchy(facade)
    /\ Len(BackwardSweeps(FALSE, 0, <<>>)) > Len(search_space_with_buckets)
    /\ weights_table = SearchTables(FALSE).weights
    /\ \E cell \in Cells : weights_table[cell] >= 3 /\ weights_table[cell] # INVALID_EDGE_WEIGHT

----------------------------------------------------------------------------
(* C14: a second call with the same graph, phantom nodes, source indices and
   target indices, started on the working data left by the first call, ends
   with the same weights, durations and middle nodes in every cell as the
   first call. *)
C14_SecondRunIsIdentical ==
    (pc = "done" /\ first_run # <<>>) =>
        /\ weights_table = first_run[1].weights
        /\ durations_table = first_run[1].durations
        /\ middle_nodes_table = first_run[1].middle_nodes

(* C14 witness: the second call has completed; the heap it started on held
   the nodes of the first call's last search, and in the last row two
   settled nodes offer the same (weight, duration) for a cell, so the middle
   node is decided by the tie-break. *)
C14_Witness ==
    /\ pc = "done"
    /\ first_run # <<>>
    /\ \E c \in Columns :
          LET r == number_of_sources - 1
              Known == settled[r] \cap BucketNodes(c)
              Offer(n) == <<GetKey(query_heap, n)
                               + EntryOf(search_space_with_buckets, n, c).weight,
                            GetData(query_heap, n).duration
                               + EntryOf(search_space_with_buckets, n, c).duration>>
          IN  \E n1, n2 \in Known :
                 /\ n1 # n2
                 /\ Offer(n1) = Offer(n2)
                 /\ Offer(n1) = <<weights_table[Cell(r, c)], durations_table[Cell(r, c)]>>
                 /\ middle_nodes_table[Cell(r, c)] \in {n1, n2}

----------------------------------------------------------------------------
(* The cells of row r: r*T .. r*T+T-1. *)
RowCells(r) == (r * number_of_targets) .. (r * number_of_targets + number_of_targets - 1)

(* C15: every forwardRoutingStep made for row r leaves every entry of
   weights, durations and middle_nodes outside r*T .. r*T+T-1 unchanged. *)
C15_ForwardSweepWritesOwnRow ==
    [][InForwardStep => \A cell \in Cells \ RowCells(row_idx) : ~CellChanged(cell)]_vars

(* C15 witness: a forward step of a later row has just set a cell of its row
   while an earlier row holds a different value in the same column. *)
C15_Witness ==
    /\ AfterForwardStep
    /\ row_idx >= 1
    /\ \E c \in Columns :
          /\ middle_nodes_table[Cell(row_idx, c)] = last_node
          /\ middle_nodes_table[Cell(0, c)] # SPECIAL_NODEID
          /\ weights_table[Cell(0, c)] # weights_table[Cell(row_idx, c)]

----------------------------------------------------------------------------
(* The bucket entry b of the node being settled gives a negative sum that
   the self-loop of the node lifts to a non-negative one. *)
LoopCorrects(b) ==
    /\ RawWeight(b) < 0
    /\ GetLoopWeight(facade, StepNode) # INVALID_EDGE_WEIGHT
    /\ RawWeight(b) + GetLoopWeight(facade, StepNode) >= 0

(* C16: when the sum w of the settled node's forward cost and a bucket
   entry's weight is negative and the node has a self-loop of weight L with
   w + L >= 0, the candidate is (w + L, d + self-loop duration); after the
   step the cell is not negative, not the unreachable sentinel and not
   larger than w + L, and a cell that held the sentinels holds exactly the
   candidate and the node. *)
C16_SelfLoopCorrection ==
    [][InForwardStep =>
         \A b \in BucketsOf(StepNode) :
            LoopCorrects(b) =>
               LET cell == Cell(row_idx, b.column_index)
                   w == RawWeight(b) + GetLoopWeight(facade, StepNode)
                   d == RawDuration(b) + GetLoopDuration(facade, StepNode)
               IN  /\ addLoopWeight(facade, StepNode, RawWeight(b), RawDuration(b))
                         = [ok |-> TRUE, weight |-> w, duration |-> d]
                   /\ weights_table'[cell] >= 0
                   /\ weights_table'[cell] # INVALID_EDGE_WEIGHT
                   /\ weights_table'[cell] = Min2(weights_table[cell], w)
                   /\ middle_nodes_table[cell] = SPECIAL_NODEID =>
                         /\ weights_table'[cell] = w
                         /\ durations_table'[cell] = d
                         /\ middle_nodes_table'[cell] = StepNode]_vars

(* C16 witness: a forward step has met a bucket entry with a negative sum at
   a node whose self-loop lifts it to a positive weight, and the cell holds
   that weight, the duration with the self-loop's duration, and the node. *)
C16_Witness ==
    /\ AfterForwardStep
    /\ \E b \in BucketsOf(last_node) :
          LET w == GetKey(query_heap, last_node) + b.weight
              L == GetLoopWeight(facade, last_node)
              cell == Cell(row_idx, b.column_index)
          IN  /\ w < 0
              /\ L # INVALID_EDGE_WEIGHT
              /\ w + L > 0
              /\ weights_table[cell] = w + L
              /\ durations_table[cell] = GetData(query_heap, last_node).duration + b.duration
                                            + GetLoopDuration(facade, last_node)
              /\ middle_nodes_table[cell] = last_node

----------------------------------------------------------------------------
Reverse(list) == [i \in 1 .. Len(list) |-> list[Len(list) + 1 - i]]

(* The positions std::equal_range with NodeBucket::Compare yields for node n. *)
RangeOf(n) ==
    LET bucket_list == EqualRange(search_space_with_buckets, n, 0, FALSE)
    IN  bucket_list.first .. (bucket_list.second - 1)

(* C17: from the sort on, for every node the equal-range lookup by node id
   yields exactly the positions of the node's bucket entries (all of them,
   contiguous, none of another node), at most one per column; and the sort
   gives the same list for the reverse insertion order. *)
C17_EqualRangeFindsAllEntries ==
    /\ [](ForwardPhase =>
            \A n \in GraphNodes :
               /\ RangeOf(n) = {i \in 1 .. Len(search_space_with_buckets) :
                                   search_space_with_buckets[i].middle_node = n}
               /\ \A i, j \in RangeOf(n) :
                     search_space_with_buckets[i].column_index
                        = search_space_with_buckets[j].column_index => i = j)
    /\ [][(pc = "backward_loop" /\ pc' = "forward_loop") =>
            search_space_with_buckets' = SortBuckets(Reverse(search_space_with_buckets))]_vars

(* C17 witness: a forward step has settled a node with bucket entries of two
   columns c1 < c2, and the sweep of c1 settled another node after it, so
   the node's entries were not adjacent in insertion order. *)
C17_Witness ==
    /\ AfterForwardStep
    /\ Cardinality(RangeOf(last_node)) >= 2
    /\ \E c1, c2 \in Columns, m \in GraphNodes :
          /\ c1 < c2
          /\ m \in BucketNodes(c1)
          /\ last_node \in BucketNodes(c1) \cap BucketNodes(c2)
          /\ m # last_node
          /\ EntryOf(search_space_with_buckets, m, c1).weight
                > EntryOf(search_space_with_buckets, last_node, c1).weight

----------------------------------------------------------------------------
(* The search a routing step belongs to, and the heap after its DeleteMin. *)
StepDirection == IF pc = "forward_search" THEN FORWARD_DIRECTION ELSE REVERSE_DIRECTION
Popped == DeleteMin(query_heap)

StepStalls ==
    stallAtNode(StepDirection, facade, StepNode, GetKey(query_heap, StepNode), Popped)

(* The edges of the settled node to n that the search may use. *)
UsableEdgesTo(n) ==
    {e \in GetAdjacentEdgeRange(facade, StepNode) :
        EdgeUsable(StepDirection, e) /\ e.to = n}

(* C18: in every routing step whose node is not stalled, a node without a
   usable edge from the settled node keeps its heap entry; a node `to` with
   such an edge and never inserted is inserted with (weight + edge weight,
   duration + edge duration) and parent = the settled node; an inserted one
   has key, duration and parent overwritten with the candidate and the
   settled node exactly when the candidate is strictly lexicographically
   smaller than its recorded (key, duration), and is unchanged otherwise. *)
C18_RelaxOutgoingEdges ==
    [][((InForwardStep \/ InBackwardStep) /\ ~StepStalls) =>
         \A to \in GraphNodes :
            IF UsableEdgesTo(to) = {} THEN query_heap'[to] = Popped[to]
            ELSE \A e \in UsableEdgesTo(to) :
                    LET to_weight == GetKey(query_heap, StepNode) + e.weight
                        to_duration == GetData(query_heap, StepNode).duration + e.duration
                    IN  IF ~WasInserted(Popped, to)
                        THEN query_heap'[to] =
                                [inserted |-> TRUE, queued |-> TRUE, key |-> to_weight,
                                 parent |-> StepNode, duration |-> to_duration]
                        ELSE IF TieLess(to_weight, to_duration,
                                        GetKey(Popped, to), GetData(Popped, to).duration)
                             THEN query_heap'[to] =
                                     [Popped[to] EXCEPT !.key = to_weight,
                                                        !.parent = StepNode,
                                                        !.duration = to_duration]
                             ELSE query_heap'[to] = Popped[to]]_vars

(* C18 witness: a routing step has lowered the entry of a node that the seed
   of the search had inserted before with a larger candidate: the node's
   parent is the settled node, which is not the seed. *)
C18_Witness ==
    /\ last_node # SPECIAL_NODEID
    /\ pc \in {"backward_search", "forward_search"}
    /\ \E seed, to \in GraphNodes :
          /\ WasInserted(query_heap, seed)
          /\ GetData(query_heap, seed).parent = seed
          /\ seed # last_node
          /\ to \notin {seed, last_node}
          /\ WasInserted(query_heap, to)
          /\ GetData(query_heap, to).parent = last_node
          /\ \E e \in GetAdjacentEdgeRange(facade, seed) :
                /\ e.to = to
                /\ EdgeUsable(pc = "forward_search", e)
                /\ GetKey(query_heap, seed) + e.weight > GetKey(query_heap, to)

----------------------------------------------------------------------------
(* C19: on an undirected graph, for a query whose sources and targets are
   the same phantom list, the completed search holds the same weight and
   the same duration in cell (r,c) and in cell (c,r). *)
C19_SymmetricMatrix ==
    (pc = "done" /\ source_indices = target_indices
        /\ \A e \in facade.edges : e.forward /\ e.backward) =>
        \A r \in Rows, c \in Columns :
            /\ weights_table[Cell(r, c)] = weights_table[Cell(c, r)]
            /\ durations_table[Cell(r, c)] = durations_table[Cell(c, r)]

----------------------------------------------------------------------------
(* The candidate of node m for column c in the search of the current row:
   the sum of m's forward cost and its bucket entry of column c, with the
   self-loop of m added when the sum is negative. *)
CandidateAt(m, c) ==
    LET b == EntryOf(search_space_with_buckets, m, c)
        w == GetKey(query_heap, m) + b.weight
        d == GetData(query_heap, m).duration + b.duration
    IN  IF w < 0
        THEN [weight |-> w + GetLoopWeight(facade, m),
              duration |-> d + GetLoopDuration(facade, m)]
        ELSE [weight |-> w, duration |-> d]

(* C20: after every forwardRoutingStep of row r, every cell (r,c) whose
   middle node m is not the sentinel holds exactly the weight and the
   duration of m's candidate for column c. *)
C20_CellMatchesMiddleNode ==
    AfterForwardStep =>
        \A c \in Columns :
            LET m == middle_nodes_table[Cell(row_idx, c)]
            IN  m # SPECIAL_NODEID =>
                   /\ m \in BucketNodes(c)
                   /\ WasInserted(query_heap, m)
                   /\ weights_table[Cell(row_idx, c)] = CandidateAt(m, c).weight
                   /\ durations_table[Cell(row_idx, c)] = CandidateAt(m, c).duration

----------------------------------------------------------------------------
(* The nodes a search has settled: inserted into the heap and popped. *)
SettledInHeap(h) == {n \in DOMAIN h : h[n].inserted /\ ~h[n].queued}

(* The positions of the bucket entries of node n for column c. *)
EntriesAt(list, n, c) ==
    {i \in 1 .. Len(list) : list[i].middle_node = n /\ list[i].column_index = c}

(* The column whose backward sweep the heap holds. *)
SweptColumn == IF pc = "backward_search" THEN column_idx ELSE column_idx - 1

(* The parent of a bucket entry of column c is the node itself, for the
   target node of the column, or a node with an entry of column c among
   `earlier` whose weight is not larger. *)
ParentRecorded(earlier, n, parent, weight, c) ==
    \/ parent = n /\ n = TargetPhantom(c).node
    \/ \E j \in EntriesAt(earlier, parent, c) : earlier[j].weight <= weight

(* During and right after the sweep of a column, the nodes with an entry of
   that column are the nodes the sweep has settled, one entry each, holding
   the node's heap key, duration and parent. *)
SweepRecorded ==
    (pc = "backward_search" \/ (pc = "backward_loop" /\ column_idx >= 1)) =>
        \A n \in GraphNodes :
            LET at == EntriesAt(search_space_with_buckets, n, SweptColumn)
            IN  IF n \in SettledInHeap(query_heap)
                THEN /\ Cardinality(at) = 1
                     /\ \A i \in at :
                           /\ search_space_with_buckets[i].weight = GetKey(query_heap, n)
                           /\ search_space_with_buckets[i].duration =
                                 GetData(query_heap, n).duration
                           /\ search_space_with_buckets[i].parent_node =
                                 GetData(query_heap, n).parent
                ELSE at = {}

(* A backward step appends the entry of the node it pops, with the key,
   duration and parent the heap holds at that moment; the node has no entry
   of the column yet and its parent has one.  No other step adds, removes
   or changes an entry. *)
StepRecordsSettledNode ==
    IF InBackwardStep
    THEN LET n == MinNode(query_heap)
             parent == GetData(query_heap, n).parent
         IN  /\ search_space_with_buckets' =
                   Append(search_space_with_buckets,
                          NodeBucket(n, parent, column_idx, GetKey(query_heap, n),
                                     GetData(query_heap, n).duration))
             /\ EntriesAt(search_space_with_buckets, n, column_idx) = {}
             /\ ParentRecorded(search_space_with_buckets, n, parent,
                               GetKey(query_heap, n), column_idx)
    ELSE \A c \in Columns, n \in GraphNodes :
            /\ Cardinality(EntriesAt(search_space_with_buckets', n, c)) =
                  Cardinality(EntriesAt(search_space_with_buckets, n, c))
            /\ {search_space_with_buckets'[i] :
                    i \in EntriesAt(search_space_with_buckets', n, c)} =
                  {search_space_with_buckets[i] :
                    i \in EntriesAt(search_space_with_buckets, n, c)}

(* After the backward phase no node has two entries of one column, and the
   parent of every entry is recorded in the list. *)
BucketsAfterBackwardPhase ==
    (column_idx = number_of_targets /\ pc # "backward_search") =>
        \A c \in Columns, n \in GraphNodes :
            /\ Cardinality(EntriesAt(search_space_with_buckets, n, c)) <= 1
            /\ \A i \in EntriesAt(search_space_with_buckets, n, c) :
                  ParentRecorded(search_space_with_buckets, n,
                                 search_space_with_buckets[i].parent_node,
                                 search_space_with_buckets[i].weight, c)

(* C21: after the backward phase the bucket list holds, for every column c
   and node n, exactly one entry (n, c) if the backward sweep of column c
   settled n and none otherwise; the entry holds the key and the duration n
   had in the heap when it was popped, and its parent is n itself (the seed
   of the sweep) or a node with an entry of column c that was settled
   earlier with a weight not larger than n's. *)
C21_OneBucketPerSettledNode ==
    /\ []SweepRecorded
    /\ [][StepRecordsSettledNode]_vars
    /\ []BucketsAfterBackwardPhase

(* C21 witness: the backward phase is over; the sweep of one column settled
   a node whose parent is not the seed, and left out a node that another
   column's sweep settled. *)
C21_Witness ==
    /\ pc = "forward_loop"
    /\ row_idx = 0
    /\ number_of_targets >= 2
    /\ \E c \in Columns, i \in 1 .. Len(search_space_with_buckets) :
          /\ search_space_with_buckets[i].column_index = c
          /\ search_space_with_buckets[i].parent_node # search_space_with_buckets[i].middle_node
          /\ search_space_with_buckets[i].parent_node # TargetPhantom(c).node
    /\ \E c1, c2 \in Columns, n \in GraphNodes :
          /\ EntriesAt(search_space_with_buckets, n, c1) = {}
          /\ EntriesAt(search_space_with_buckets, n, c2) # {}

====
